---- MODULE Spec2Model ----
(***************************************************************************)
(* Time tracker (src/app.py): the workbook with its three sheets (Log,     *)
(* Projects, Active), the request handlers that start and stop the timer   *)
(* and add a project activity, and the index page's log normalisation and  *)
(* daily summary.                                                          *)
(*                                                                         *)
(* Conventions of the model                                                *)
(*  - A text value is a sequence of one-character strings, so that strip   *)
(*    and lower are computed.  A blank cell (pandas NaN) and the empty     *)
(*    text are both <<>>.                                                  *)
(*  - A timestamp is a number of whole seconds.  A timestamp cell is       *)
(*    Ts(n), NaT (blank / not-a-time) or Bad (text that does not parse).   *)
(*  - DurationMinutes is kept in hundredths of a minute (2.08 min = 208),  *)
(*    as Num(n), or BadNum for a cell that is not numeric.                 *)
(***************************************************************************)
EXTENDS Integers, Sequences, FiniteSets, TLC

VARIABLES
    log,        \* sheet "Log": sequence of rows
    projects,   \* sheet "Projects": sequence of rows
    active,     \* sheet "Active": sequence of rows
    lastOp,     \* the handler of the latest completed request
    outcome,    \* the message category that request flashed
    view,       \* what the latest response rendered (empty for a redirect)
    req,        \* per worker thread: the request it is serving
    base        \* the workbook when the current round of requests began

vars == <<log, projects, active, lastOp, outcome, view, req, base>>

store == [log |-> log, projects |-> projects, active |-> active]

----------------------------------------------------------------------------
(* Bounds *)

MaxLog == 2
MaxDefs == 2

SecondsPerDay == 86400

\* Values datetime.now() returns in the model; it is not monotonic.
Times == {0, 125}

\* Form inputs.
ProjectInputs == {<<" ">>, <<"a">>, <<"A">>, <<" ", "b">>}
ActivityInputs == {<<" ">>, <<"a">>, <<"A", " ">>}
NoteInputs == {<<" ">>}

Threads == {1, 2}

----------------------------------------------------------------------------
(* Text *)

RECURSIVE lstrip(_)
lstrip(s) == IF s # <<>> /\ Head(s) = " " THEN lstrip(Tail(s)) ELSE s

RECURSIVE rstrip(_)
rstrip(s) ==
    IF s # <<>> /\ s[Len(s)] = " " THEN rstrip(SubSeq(s, 1, Len(s) - 1)) ELSE s

strip(s) == rstrip(lstrip(s))

LowerChar(c) ==
    CASE c = "A" -> "a"
      [] c = "B" -> "b"
      [] c = "N" -> "n"
      [] OTHER -> c

lower(s) == [i \in 1..Len(s) |-> LowerChar(s[i])]

\* Code point order of the characters in use.
CharRank(c) ==
    CASE c = " " -> 32
      [] c = "A" -> 65
      [] c = "B" -> 66
      [] c = "N" -> 78
      [] c = "a" -> 97
      [] c = "b" -> 98
      [] c = "n" -> 110
      [] OTHER -> 0

RECURSIVE StrLess(_, _)
StrLess(s, t) ==
    IF t = <<>> THEN FALSE
    ELSE IF s = <<>> THEN TRUE
    ELSE IF Head(s) # Head(t) THEN CharRank(Head(s)) < CharRank(Head(t))
    ELSE StrLess(Tail(s), Tail(t))

RECURSIVE sorted(_)
sorted(S) ==
    IF S = {} THEN <<>>
    ELSE LET m == CHOOSE x \in S : \A y \in S \ {x} : StrLess(x, y)
         IN <<m>> \o sorted(S \ {m})

----------------------------------------------------------------------------
(* Cells *)

Ts(n) == [k |-> "ts", v |-> n]
NaT == [k |-> "nat", v |-> 0]
Bad == [k |-> "bad", v |-> 0]

Num(n) == [k |-> "num", v |-> n]
BadNum == [k |-> "bad", v |-> 0]

\* pd.to_datetime(x, errors="coerce")
to_datetime(c) == IF c.k = "ts" THEN c ELSE NaT

isna(c) == c.k = "nat"

\* .dt.date / .date(): the day of a timestamp (midnight), NaT stays NaT
DateOf(c) ==
    IF c.k = "ts" THEN Ts((c.v \div SecondsPerDay) * SecondsPerDay) ELSE NaT

\* pd.to_numeric(x, errors="coerce").fillna(0)
to_numeric(c) == IF c.k = "num" THEN c.v ELSE 0

\* round(seconds / 60, 2), in hundredths of a minute.  seconds * 100 / 60 =
\* seconds * 5 / 3 is never halfway between two integers.
RoundMinutesFloor(seconds) == (seconds * 5) \div 3

RoundMinutes(seconds) == (2 * (seconds * 5) + 3) \div 6

----------------------------------------------------------------------------
(* The workbook *)

\* A fresh workbook: three sheets with headers and no rows.
ensure_workbook == [log |-> <<>>, projects |-> <<>>, active |-> <<>>]

\* The three sheets as the handler reads them.
read_workbook == store

LogRowToWrite(r) ==
    [r EXCEPT !.Date = DateOf(to_datetime(r.Date)),
              !.Start = to_datetime(r.Start),
              !.End = to_datetime(r.End)]

ActiveRowToWrite(r) == [r EXCEPT !.Start = to_datetime(r.Start)]

\* A write that adds the Active rows below the ones already in the sheet.
write_workbook_append(log_df, projects_df, active_df) ==
    [log |-> [i \in 1..Len(log_df) |-> LogRowToWrite(log_df[i])],
     projects |-> projects_df,
     active |-> active \o [i \in 1..Len(active_df) |-> ActiveRowToWrite(active_df[i])]]

\* The workbook after the write: every sheet is overwritten, the timestamp
\* columns coerced on the way.
write_workbook(log_df, projects_df, active_df) ==
    [log |-> [i \in 1..Len(log_df) |-> LogRowToWrite(log_df[i])],
     projects |-> projects_df,
     active |-> [i \in 1..Len(active_df) |-> ActiveRowToWrite(active_df[i])]]

----------------------------------------------------------------------------
(* The taxonomy *)

ProjectKeys(projects_df) ==
    {strip(projects_df[i].Project) : i \in 1..Len(projects_df)} \ {<<>>}

ActivitiesOf(projects_df, project) ==
    {strip(projects_df[i].Activity) :
        i \in {j \in 1..Len(projects_df) : strip(projects_df[j].Project) = project}}
    \ {<<>>}

\* project -> its activities, deduplicated, in ascending order
build_project_map(projects_df) ==
    [project \in ProjectKeys(projects_df) |->
        sorted(ActivitiesOf(projects_df, project))]

\* Membership that ignores the case of the names.
IsDefinedAnyCase(project_map, project, activity) ==
    \E p \in DOMAIN project_map :
        /\ lower(p) = lower(project)
        /\ \E i \in 1..Len(project_map[p]) :
              lower(project_map[p][i]) = lower(activity)

\* project in project_map and activity in project_map[project]
IsDefined(project_map, project, activity) ==
    /\ project \in DOMAIN project_map
    /\ \E i \in 1..Len(project_map[project]) : project_map[project][i] = activity

\* A duplicate check that compares the names as typed.
IsDuplicateExact(projects_df, project_name, activity_name) ==
    LET existing == {i \in 1..Len(projects_df) :
                        projects_df[i].Project = project_name}
        match == {i \in existing : projects_df[i].Activity = activity_name}
    IN match # {}

\* The rows that match the new names on both columns, case-insensitively.
IsDuplicate(projects_df, project_name, activity_name) ==
    LET existing == {i \in 1..Len(projects_df) :
                        lower(projects_df[i].Project) = lower(project_name)}
        match == {i \in existing :
                        lower(projects_df[i].Activity) = lower(activity_name)}
    IN match # {}

----------------------------------------------------------------------------
(* Handlers.  Each takes the sheets it read, the form and the clock value  *)
(* and yields: whether it wrote, the workbook it wrote, and the outcome.   *)

NotWritten(df, message) == [wrote |-> FALSE, store |-> df, outcome |-> message]

Written(st, message) == [wrote |-> TRUE, store |-> st, outcome |-> message]

add_project_activity(df, form) ==
    LET project_name == strip(form.project)
        activity_name == strip(form.activity)
    IN IF project_name = <<>> \/ activity_name = <<>>
       THEN NotWritten(df, "ValidationError")
       ELSE IF IsDuplicate(df.projects, project_name, activity_name)
       THEN NotWritten(df, "DuplicateDefinition")
       ELSE Written(
              write_workbook(
                df.log,
                Append(df.projects,
                       [Project |-> project_name, Activity |-> activity_name]),
                df.active),
              "Added")

\* A start that does not look at the Active sheet first.
start_unguarded(df) == FALSE

\* not active_df.empty
start_blocked(df) == df.active # <<>>

handle_start(df, form, now) ==
    LET project == strip(form.project)
        activity == strip(form.activity)
        notes == strip(form.notes)
    IN IF start_blocked(df) THEN NotWritten(df, "AlreadyRunning")
       ELSE IF project = <<>> THEN NotWritten(df, "ValidationError")
       ELSE IF activity = <<>> THEN NotWritten(df, "ValidationError")
       ELSE IF ~IsDefined(build_project_map(df.projects), project, activity)
       THEN NotWritten(df, "ValidationError")
       ELSE Written(
              write_workbook(
                df.log, df.projects,
                <<[Project |-> project, Activity |-> activity,
                   Notes |-> notes, Start |-> Ts(now)]>>),
              "Started")

\* A stop with nothing running that still rewrites the workbook.
stop_idle_rewrites(df) ==
    Written(write_workbook(df.log, df.projects, <<>>), "CorruptSession")

\* active_df.empty: nothing to stop
stop_idle(df) == NotWritten(df, "NoActiveSession")

\* An invalid start time reported without clearing the Active sheet.
stop_corrupt_keeps(df) == NotWritten(df, "CorruptSession")

\* The active row's start time is not a time: clear the Active sheet.
stop_corrupt(df) ==
    Written(write_workbook(df.log, df.projects, <<>>), "CorruptSession")

\* The new entry put on top of the log.
updated_log_prepend(log_df, entry) == <<entry>> \o log_df

\* pd.concat([log_df, pd.DataFrame([entry])])
updated_log(log_df, entry) == Append(log_df, entry)

handle_stop(df, form, now) ==
    IF df.active = <<>> THEN stop_idle(df)
    ELSE LET active_entry == df.active[1]
             notes == strip(form.notes)
             start_dt == to_datetime(active_entry.Start)
         IN IF isna(start_dt) THEN stop_corrupt(df)
            ELSE LET end_dt == Ts(now)
                     duration_minutes == RoundMinutes(end_dt.v - start_dt.v)
                     entry ==
                       [Date |-> DateOf(start_dt),
                        Project |-> active_entry.Project,
                        Activity |-> active_entry.Activity,
                        Start |-> start_dt,
                        End |-> end_dt,
                        DurationMinutes |-> Num(duration_minutes),
                        Notes |-> IF notes # <<>> THEN notes
                                  ELSE active_entry.Notes]
                 IN Written(
                      write_workbook(updated_log(df.log, entry), df.projects, <<>>),
                      "Saved")

----------------------------------------------------------------------------
(* The index page *)

normalize_log_dataframe(log_df) ==
    [i \in 1..Len(log_df) |->
        [log_df[i] EXCEPT !.Date = DateOf(to_datetime(log_df[i].Date)),
                          !.Start = to_datetime(log_df[i].Start),
                          !.End = to_datetime(log_df[i].End),
                          !.DurationMinutes = Num(to_numeric(log_df[i].DurationMinutes))]]

RECURSIVE SumOver(_, _)
\* The sum of f over the set S of integers.
SumOver(f, S) ==
    IF S = {} THEN 0
    ELSE LET x == CHOOSE y \in S : TRUE IN f[x] + SumOver(f, S \ {x})

RECURSIVE sort_index_descending(_)
sort_index_descending(S) ==
    IF S = {} THEN <<>>
    ELSE LET m == CHOOSE x \in S : \A y \in S : y <= x
         IN <<m>> \o sort_index_descending(S \ {m})

\* The rows that have both a start and an end, as the recent list keeps them.
RowsWithStartAndEnd(log_df) ==
    {i \in 1..Len(log_df) : /\ ~isna(to_datetime(log_df[i].Start))
                            /\ ~isna(to_datetime(log_df[i].End))}

\* df.dropna(subset=["Start"]): the positions of the rows that have a start
RowsWithStart(log_df) ==
    {i \in 1..Len(log_df) : ~isna(to_datetime(log_df[i].Start))}

\* groupby(...)["DurationMinutes"].sum() of one group
GroupMinutes(log_df, rows) ==
    SumOver([i \in rows |-> to_numeric(log_df[i].DurationMinutes)], rows)

\* build_summary(...)["daily"] before formatting: one (day, minutes) per day
\* that has an entry, latest day first.
daily_series(log_df) ==
    LET rows == RowsWithStart(log_df)
        DateOnly == [i \in rows |-> DateOf(to_datetime(log_df[i].Start)).v]
        days == sort_index_descending({DateOnly[i] : i \in rows})
    IN [n \in 1..Len(days) |->
          [date |-> days[n],
           minutes |-> GroupMinutes(log_df, {i \in rows : DateOnly[i] = days[n]})]]

NoView == [rendered |-> FALSE, log |-> <<>>, daily |-> <<>>]

----------------------------------------------------------------------------
(* Requests *)

BlankForm == [project |-> <<>>, activity |-> <<>>, notes |-> <<>>]

StartForms ==
    [project : ProjectInputs, activity : ActivityInputs, notes : NoteInputs]

StartRequest(form, now) == [op |-> "start", form |-> form, now |-> now]

StartRequests == {StartRequest(form, now) : form \in StartForms, now \in Times}

StopRequests ==
    {[op |-> "stop", form |-> [BlankForm EXCEPT !.notes = n], now |-> t] :
        n \in NoteInputs, t \in Times}

AddRequests ==
    {[op |-> "add",
      form |-> [BlankForm EXCEPT !.project = p, !.activity = a], now |-> 0] :
        p \in ProjectInputs, a \in ActivityInputs}

\* What the handler of request r does with the sheets df it read.
Handle(r, df) ==
    CASE r.op = "start" -> handle_start(df, r.form, r.now)
      [] r.op = "stop" -> handle_stop(df, r.form, r.now)
      [] r.op = "add" -> add_project_activity(df, r.form)

WithinBounds(st) == Len(st.log) <= MaxLog /\ Len(st.projects) <= MaxDefs

StoreIs(st) == log' = st.log /\ projects' = st.projects /\ active' = st.active

\* The handler's write, if it wrote.
Commit(h) == IF h.wrote THEN StoreIs(h.store) ELSE UNCHANGED <<log, projects, active>>

\* POST / with action=start, as one whole request: read, handle, write.
StartStep(r) ==
    LET h == handle_start(read_workbook, r.form, r.now)
    IN /\ WithinBounds(h.store)
       /\ Commit(h)
       /\ lastOp' = "start"
       /\ outcome' = h.outcome
       /\ view' = NoView
       /\ UNCHANGED <<req, base>>

\* POST / with action=stop
StopStep(r) ==
    LET h == handle_stop(read_workbook, r.form, r.now)
    IN /\ WithinBounds(h.store)
       /\ Commit(h)
       /\ lastOp' = "stop"
       /\ outcome' = h.outcome
       /\ view' = NoView
       /\ UNCHANGED <<req, base>>

\* POST /add-project
AddStep(r) ==
    LET h == add_project_activity(read_workbook, r.form)
    IN /\ WithinBounds(h.store)
       /\ Commit(h)
       /\ lastOp' = "add"
       /\ outcome' = h.outcome
       /\ view' = NoView
       /\ UNCHANGED <<req, base>>

HandleStart == \E r \in StartRequests : StartStep(r)

HandleStop == \E r \in StopRequests : StopStep(r)

AddProject == \E r \in AddRequests : AddStep(r)

\* GET /: normalise the log and build the summary
Index ==
    LET normalized_log == normalize_log_dataframe(read_workbook.log)
    IN /\ view' = [rendered |-> TRUE, log |-> normalized_log,
                   daily |-> daily_series(normalized_log)]
       /\ lastOp' = "index"
       /\ outcome' = "Rendered"
       /\ UNCHANGED <<log, projects, active, req, base>>

IdleReq == [pc |-> "idle", r |-> [op |-> "none", form |-> BlankForm, now |-> 0],
            snap |-> ensure_workbook]

Init ==
    /\ log = ensure_workbook.log
    /\ projects = ensure_workbook.projects
    /\ active = ensure_workbook.active
    /\ lastOp = "none"
    /\ outcome = "none"
    /\ view = NoView
    /\ req = [t \in Threads |-> IdleReq]
    /\ base = ensure_workbook

Next == HandleStart \/ HandleStop \/ AddProject \/ Index

Spec == Init /\ [][Next]_vars

----------------------------------------------------------------------------
(* A workbook that already exists when the application starts is used as   *)
(* it is: its cells may hold anything a spreadsheet can hold.              *)

\* Date, Start, End, DurationMinutes of the rows found in the Log sheet:
\* a row of another day whose duration is not a number, a row whose date
\* and start do not parse, a row whose date has a time of day and whose end
\* does not parse.
ExistingCells ==
    {<<Ts(SecondsPerDay), Ts(SecondsPerDay), Ts(SecondsPerDay + 125), BadNum>>,
     <<Bad, Bad, Ts(125), Num(208)>>,
     <<Ts(125), Ts(0), Bad, Num(208)>>}

ExistingLogRows ==
    {[Date |-> c[1], Project |-> <<"a">>, Activity |-> <<"a">>, Start |-> c[2],
      End |-> c[3], DurationMinutes |-> c[4], Notes |-> <<"n">>] :
        c \in ExistingCells}

\* An active row whose start time does not parse.
ExistingActiveRows ==
    {[Project |-> <<"a">>, Activity |-> <<"a">>, Notes |-> <<"n">>, Start |-> Bad]}

ExistingWorkbooks ==
    [log : {<<r>> : r \in ExistingLogRows},
     projects : {<<>>},
     active : {<<>>} \cup {<<r>> : r \in ExistingActiveRows}]

InitExisting ==
    /\ \E wb \in ExistingWorkbooks :
          /\ log = wb.log /\ projects = wb.projects /\ active = wb.active
          /\ base = wb
    /\ lastOp = "none"
    /\ outcome = "none"
    /\ view = NoView
    /\ req = [t \in Threads |-> IdleReq]

SpecExisting == InitExisting /\ [][Next]_vars

----------------------------------------------------------------------------
(* Two requests served by two worker threads.  A handler reads the         *)
(* workbook when it begins and overwrites it when it ends; nothing keeps   *)
(* another handler from running in between.                                *)

Requests == StartRequests \cup StopRequests \cup AddRequests

\* The workbook with the handler's write applied.
Apply(r, wb) == LET h == Handle(r, wb) IN IF h.wrote THEN h.store ELSE wb

DefinedWorkbook ==
    Apply([op |-> "add",
           form |-> [BlankForm EXCEPT !.project = <<"a">>, !.activity = <<"a">>],
           now |-> 0], ensure_workbook)

RunningWorkbook ==
    Apply([op |-> "start",
           form |-> [BlankForm EXCEPT !.project = <<"a">>, !.activity = <<"a">>],
           now |-> 0], DefinedWorkbook)

\* Workbooks the two requests may find: fresh, with a definition, with a
\* running timer.
RoundStarts == {ensure_workbook, DefinedWorkbook, RunningWorkbook}

\* Thread t receives request r and reads the workbook.
Receive(t) ==
    \E r \in Requests :
        /\ req[t].pc = "idle"
        /\ req' = [req EXCEPT ![t] = [pc |-> "read", r |-> r, snap |-> read_workbook]]
        /\ UNCHANGED <<log, projects, active, lastOp, outcome, view, base>>

\* Thread t finishes its handler on the sheets it read and writes.
Respond(t) ==
    /\ req[t].pc = "read"
    /\ LET h == Handle(req[t].r, req[t].snap)
       IN /\ Commit(h)
          /\ lastOp' = req[t].r.op
          /\ outcome' = h.outcome
    /\ view' = NoView
    /\ req' = [req EXCEPT ![t].pc = "done"]
    /\ UNCHANGED base

InitThreads ==
    /\ \E wb \in RoundStarts :
          /\ log = wb.log /\ projects = wb.projects /\ active = wb.active
          /\ base = wb
    /\ lastOp = "none"
    /\ outcome = "none"
    /\ view = NoView
    /\ req = [t \in Threads |-> IdleReq]

NextThreads == \E t \in Threads : Receive(t) \/ Respond(t)

SpecThreads == InitThreads /\ [][NextThreads]_vars

----------------------------------------------------------------------------
(* Properties *)

Wrote == {"Started", "Saved", "CorruptSession", "Added"}

\* C1: from the empty workbook, whatever requests are served, the Active
\* sheet holds at most one row.
C1_AtMostOneActiveRow == Len(active) <= 1

C1_Witness ==
    /\ lastOp = "start" /\ outcome = "Started"
    /\ Len(active) = 1 /\ Len(log) >= 1

\* h hundredths of a minute is seconds / 60 rounded to 2 decimals
IsRoundedMinutes(h, seconds) ==
    /\ 2 * (3 * h - 5 * seconds) <= 3
    /\ 2 * (5 * seconds - 3 * h) <= 3

\* C2: a stop that finds the session a start wrote is saved: it appends
\* exactly one entry to the log, the entry has the session's Project,
\* Activity and Start, its End is the time of the stop, its DurationMinutes
\* is (End - Start) in minutes rounded to 2 decimals, and the Active sheet is
\* empty afterwards.
C2_StopAppendsOneEntry ==
    [][\A r \in StopRequests :
          (lastOp' = "stop" /\ active # <<>> /\ active[1].Start.k = "ts"
           /\ StopStep(r)) =>
             /\ outcome' = "Saved"
             /\ Len(log') = Len(log) + 1
             /\ SubSeq(log', 1, Len(log)) = log
             /\ LET e == log'[Len(log')]
                IN /\ e.Project = active[1].Project
                   /\ e.Activity = active[1].Activity
                   /\ e.Start = active[1].Start
                   /\ e.End = Ts(r.now)
                   /\ e.DurationMinutes.k = "num"
                   /\ IsRoundedMinutes(e.DurationMinutes.v,
                                       r.now - active[1].Start.v)
             /\ active' = <<>>]_vars

C2_Witness ==
    /\ lastOp = "stop" /\ outcome = "Saved"
    /\ Len(log) = 2
    /\ log[2].Start = Ts(0) /\ log[2].End = Ts(125)
    /\ log[2].DurationMinutes = Num(208)
    /\ active = <<>>

\* C3: a start while the Active sheet has a row fails with AlreadyRunning,
\* whatever the form holds, and changes no sheet.
C3_StartWhileRunningFails ==
    [][(lastOp' = "start" /\ active # <<>>) =>
          /\ outcome' = "AlreadyRunning"
          /\ UNCHANGED <<log, projects, active>>]_vars

C3_Witness ==
    /\ lastOp = "start" /\ outcome = "AlreadyRunning"
    /\ Len(active) = 1 /\ Len(log) >= 1

\* C4: a stop while the Active sheet is empty fails with NoActiveSession,
\* whatever the notes, and changes no sheet: no entry is appended.
C4_StopWhileIdleFails ==
    [][(lastOp' = "stop" /\ active = <<>>) =>
          /\ outcome' = "NoActiveSession"
          /\ UNCHANGED <<log, projects, active>>]_vars

C4_Witness ==
    /\ lastOp = "stop" /\ outcome = "NoActiveSession"
    /\ active = <<>> /\ Len(log) >= 1 /\ Len(projects) >= 1

UniqueDefinitions(defs) ==
    \A i, j \in 1..Len(defs) :
        i # j => \/ lower(defs[i].Project) # lower(defs[j].Project)
                 \/ lower(defs[i].Activity) # lower(defs[j].Activity)

\* C5: from the empty workbook, no two rows of the Projects sheet have the
\* same project and activity when case is ignored; adding a pair whose
\* trimmed names match an existing row on both columns, case ignored, fails
\* with DuplicateDefinition and writes nothing.
C5_DefinitionsUnique ==
    /\ UniqueDefinitions(projects)
    /\ [][/\ projects' # projects => UniqueDefinitions(projects')
          /\ lastOp' = "add" =>
                \/ /\ outcome' = "DuplicateDefinition"
                   /\ UNCHANGED <<log, projects, active>>
                \/ LET taken == {<<lower(projects[i].Project),
                                   lower(projects[i].Activity)>> :
                                     i \in 1..Len(projects)}
                   IN \A r \in AddRequests :
                         <<lower(strip(r.form.project)),
                           lower(strip(r.form.activity))>> \in taken
                         => ~AddStep(r)]_vars

C5_Witness ==
    /\ lastOp = "add" /\ outcome = "DuplicateDefinition"
    /\ Len(projects) = 2
    /\ \E i \in 1..2 : projects[i].Activity = <<"A">>

\* The sum of DurationMinutes over the rows at positions S of the normalised log.
TotalMinutes(rows, S) == SumOver([i \in S |-> rows[i].DurationMinutes.v], S)

DailyTotal(daily) ==
    SumOver([n \in 1..Len(daily) |-> daily[n].minutes], 1..Len(daily))

\* C6 as stated: the sum of DurationMinutes over all normalised entries is
\* the sum of the daily buckets.
C6_AllEntriesConserved ==
    view.rendered =>
        TotalMinutes(view.log, 1..Len(view.log)) = DailyTotal(view.daily)

\* C6: the sum of DurationMinutes over the normalised entries whose Start is
\* a time is the sum of the daily buckets; entries without a start are in
\* no bucket.
C6_StartedEntriesConserved ==
    view.rendered =>
        TotalMinutes(view.log, {i \in 1..Len(view.log) : view.log[i].Start.k = "ts"})
            = DailyTotal(view.daily)

C6_Witness ==
    /\ view.rendered
    /\ Len(view.daily) = 1 /\ view.daily[1].minutes = 208
    /\ Len(view.log) = 2
    /\ view.log[1].Start = NaT /\ view.log[1].DurationMinutes = Num(208)

\* C7: a start while idle succeeds exactly if the trimmed project and
\* activity are both non-empty and some definition has that project and that
\* activity, case-sensitively; otherwise it fails with ValidationError and
\* changes no sheet.  A start that succeeds leaves the log and the
\* definitions alone and the Active sheet holds the one row of that project
\* and activity.
C7_StartValidation ==
    [][(lastOp' = "start" /\ active = <<>>) =>
          LET pairs == {<<strip(projects[i].Project), strip(projects[i].Activity)>> :
                            i \in 1..Len(projects)}
          IN \A form \in StartForms :
                LET project == strip(form.project)
                    activity == strip(form.activity)
                    defined == /\ project # <<>> /\ activity # <<>>
                               /\ <<project, activity>> \in pairs
                IN IF defined
                   THEN \A now \in Times :
                           \/ /\ outcome' = "Started"
                              /\ UNCHANGED <<log, projects>>
                              /\ Len(active') = 1
                              /\ active'[1].Project = project
                              /\ active'[1].Activity = activity
                              /\ active'[1].Start = Ts(now)
                           \/ ~StartStep(StartRequest(form, now))
                   ELSE \/ /\ outcome' = "ValidationError"
                           /\ UNCHANGED <<log, projects, active>>
                        \/ \A now \in Times : ~StartStep(StartRequest(form, now))]_vars

C7_Witness ==
    /\ lastOp = "start" /\ outcome = "ValidationError"
    /\ active = <<>>
    /\ Len(projects) = 2
    /\ \A i \in 1..2 : projects[i].Activity = <<"A">>

\* C8: a stop that finds an active row whose Start is not a time fails with
\* CorruptSession: the log gets no entry, the Active sheet is emptied, the
\* definitions stay, and a start that follows is not rejected with
\* AlreadyRunning.
C8_CorruptSessionCleared ==
    [][/\ (lastOp' = "stop" /\ active # <<>> /\ active[1].Start.k # "ts") =>
             /\ outcome' = "CorruptSession"
             /\ Len(log') = Len(log)
             /\ active' = <<>>
             /\ projects' = projects
       /\ (lastOp = "stop" /\ outcome = "CorruptSession" /\ lastOp' = "start") =>
             outcome' # "AlreadyRunning"]_vars

C8_Witness ==
    /\ lastOp = "stop" /\ outcome = "CorruptSession"
    /\ active = <<>> /\ Len(projects) >= 1 /\ Len(log) >= 1

\* C9: once both requests are answered the workbook is the one that serving
\* them one after the other, in one of the two orders, produces.
C9_Serializable ==
    (\A t \in Threads : req[t].pc = "done") =>
        store \in {Apply(req[2].r, Apply(req[1].r, base)),
                   Apply(req[1].r, Apply(req[2].r, base))}

\* C10 as stated: the log only grows at its end, by a saved stop; every
\* other request leaves the Log sheet as it was.
C10_LogOnlyAppended ==
    [][IF lastOp' = "stop" /\ outcome' = "Saved"
       THEN Len(log') = Len(log) + 1 /\ SubSeq(log', 1, Len(log)) = log
       ELSE log' = log]_vars

BlankUnlessTime(c) == IF c.k = "ts" THEN c ELSE [k |-> "nat", v |-> 0]

DayOnly(c) == IF c.k = "ts" THEN [c EXCEPT !.v = c.v - (c.v % 86400)] ELSE c

\* The rows with the cells of Date, Start and End that are not times blanked
\* and Date cut to its day.
Rewritten(rows) ==
    [i \in 1..Len(rows) |->
        [rows[i] EXCEPT !.Date = DayOnly(BlankUnlessTime(rows[i].Date)),
                        !.Start = BlankUnlessTime(rows[i].Start),
                        !.End = BlankUnlessTime(rows[i].End)]]

\* C10: the log only grows at its end, by a saved stop.  A request that
\* writes the workbook keeps every earlier entry in its place, with the cells
\* of Date, Start and End that are not times blanked and Date cut to its day
\* and every other cell as it was; a request that does not write leaves the
\* Log sheet as it was.
C10_LogAppendedAfterRewrite ==
    [][LET kept == IF outcome' \in Wrote THEN Rewritten(log) ELSE log
       IN IF lastOp' = "stop" /\ outcome' = "Saved"
          THEN Len(log') = Len(log) + 1 /\ SubSeq(log', 1, Len(log)) = kept
          ELSE log' = kept]_vars

C10_Witness ==
    /\ lastOp = "stop" /\ outcome = "Saved"
    /\ Len(log) = 2
    /\ log[1].Start = NaT /\ log[1].DurationMinutes = Num(208)
    /\ log[2].Start = Ts(125)

====
